---- MODULE Spec2Model ----
(***************************************************************************)
(* Unified Price Engine of reckon-ai-indexer: the multi-source fetch of    *)
(* UnifiedPriceEngine.getUnifiedPrice, the consensus arithmetic, the       *)
(* Redis cache-aside layer (RedisConnection) and the subscription registry *)
(* of WebSocketManager.                                                    *)
(*                                                                         *)
(* Time is counted in ticks of 100 s: Date.now() is the variable now, the  *)
(* 300000 ms decay horizon of calculateWeightedAverage is Window = 3 ticks *)
(* and a cache TTL is a number of ticks.                                   *)
(***************************************************************************)
EXTENDS Integers, Sequences, FiniteSets, TLC

(***************************************************************************)
(* JavaScript numbers.  A number is a pair <<n, d>>: the rational n/d when *)
(* d > 0, NaN when n = 0 and d = 0.  Every arithmetic operation rounds its *)
(* exact result to MantissaBits significant bits, round-half-to-even, as   *)
(* IEEE-754 does with 53 bits; exponents are unbounded.                    *)
(***************************************************************************)
MantissaBits == 8

NaN == <<0, 0>>

Abs(i) == IF i < 0 THEN -i ELSE i

RECURSIVE Gcd(_, _)
Gcd(a, b) == IF b = 0 THEN a ELSE Gcd(b, a % b)

RECURSIVE Pow2(_)
Pow2(k) == IF k = 0 THEN 1 ELSE 2 * Pow2(k - 1)

\* n/d in lowest terms with a positive denominator
Norm(n, d) ==
  LET g == Gcd(Abs(n), Abs(d))
      s == IF d < 0 THEN -1 ELSE 1
  IN  IF g = 0 THEN NaN ELSE <<s * (n \div g), s * (d \div g)>>

Num(i) == <<i, 1>>

IsNaN(x) == x[2] = 0

\* a/d scaled by powers of two into [2^(MantissaBits-1), 2^MantissaBits):
\* the triple <<a', d', e>> with a/d = (a'/d') * 2^e
RECURSIVE Scale(_, _, _)
Scale(a, d, e) ==
  IF a >= Pow2(MantissaBits) * d THEN Scale(a, 2 * d, e + 1)
  ELSE IF a < Pow2(MantissaBits - 1) * d THEN Scale(2 * a, d, e - 1)
  ELSE <<a, d, e>>

\* nearest integer to a/d, ties to even
RoundHalfEven(a, d) ==
  LET q == a \div d
      r == a % d
  IN  IF 2 * r > d \/ (2 * r = d /\ q % 2 = 1) THEN q + 1 ELSE q

\* the representable number nearest to x
Fl(x) ==
  IF x[2] = 0 \/ x[1] = 0 THEN Norm(x[1], x[2])
  ELSE LET y == Norm(x[1], x[2])
           s == Scale(Abs(y[1]), y[2], 0)
           m == RoundHalfEven(s[1], s[2])
           sg == IF y[1] < 0 THEN -1 ELSE 1
       IN  IF s[3] >= 0 THEN <<sg * m * Pow2(s[3]), 1>>
           ELSE Norm(sg * m, Pow2(-s[3]))

Add(x, y) == IF IsNaN(x) \/ IsNaN(y) THEN NaN
             ELSE Fl(<<x[1] * y[2] + y[1] * x[2], x[2] * y[2]>>)

Sub(x, y) == IF IsNaN(x) \/ IsNaN(y) THEN NaN
             ELSE Fl(<<x[1] * y[2] - y[1] * x[2], x[2] * y[2]>>)

Mul(x, y) == IF IsNaN(x) \/ IsNaN(y) THEN NaN
             ELSE Fl(<<x[1] * y[1], x[2] * y[2]>>)

\* x / y; 0/0 is NaN (a nonzero number over 0 is not needed by the model)
Div(x, y) == IF IsNaN(x) \/ IsNaN(y) \/ y[1] = 0 THEN NaN
             ELSE Fl(<<x[1] * y[2], x[2] * y[1]>>)

\* comparisons; every comparison with NaN is false
Lt(x, y) == ~IsNaN(x) /\ ~IsNaN(y) /\ x[1] * y[2] < y[1] * x[2]
Le(x, y) == ~IsNaN(x) /\ ~IsNaN(y) /\ x[1] * y[2] <= y[1] * x[2]

\* Math.max(a, b)
MathMax(x, y) == IF IsNaN(x) \/ IsNaN(y) THEN NaN ELSE IF Lt(x, y) THEN y ELSE x

\* Math.min(a, b)
MathMin(x, y) == IF IsNaN(x) \/ IsNaN(y) THEN NaN ELSE IF Lt(y, x) THEN y ELSE x

\* Math.abs(a)
MathAbs(x) == <<Abs(x[1]), x[2]>>

\* a/d scaled by powers of four into [4^(MantissaBits-1), 4^MantissaBits):
\* the triple <<a', d', e>> with a/d = (a'/d') * 4^e
RECURSIVE Scale4(_, _, _)
Scale4(a, d, e) ==
  IF a >= Pow2(2 * MantissaBits) * d THEN Scale4(a, 4 * d, e + 1)
  ELSE IF a < Pow2(2 * MantissaBits - 2) * d THEN Scale4(4 * a, d, e - 1)
  ELSE <<a, d, e>>

\* Math.sqrt(a): the representable number nearest to the square root
MathSqrt(x) ==
  IF IsNaN(x) \/ x[1] < 0 THEN NaN
  ELSE IF x[1] = 0 THEN Num(0)
  ELSE LET s == Scale4(x[1], x[2], 0)
           m == CHOOSE k \in Pow2(MantissaBits - 1)..(Pow2(MantissaBits) - 1) :
                  k * k * s[2] <= s[1] /\ s[1] < (k + 1) * (k + 1) * s[2]
           h == (2 * m + 1) * (2 * m + 1) * s[2]
           r == IF 4 * s[1] > h \/ (4 * s[1] = h /\ m % 2 = 1) THEN m + 1 ELSE m
       IN  IF s[3] >= 0 THEN <<r * Pow2(s[3]), 1>> ELSE Norm(r, Pow2(-s[3]))

\* a numeric literal of the source: the representable number nearest to i
Lit(i) == Fl(Num(i))

(***************************************************************************)
(* The consensus arithmetic of UnifiedPriceEngine.  A PriceSource is a     *)
(* record [source, price, confidence, timestamp] whose price and           *)
(* confidence are numbers and whose timestamp is an integer tick.          *)
(***************************************************************************)
Window == 3

\* a decay that is not clamped at zero
ageWeight_Unclamped(source, t) ==
  Sub(Num(1), Div(Num(t - source.timestamp), Num(Window)))

\* Math.max(0, 1 - (now - source.timestamp) / 300000)
ageWeight(source, t) ==
  MathMax(Num(0), Sub(Num(1), Div(Num(t - source.timestamp), Num(Window))))

\* sources.reduce((sum, source) => sum + source.confidence * ageWeight, 0)
RECURSIVE SumWeights(_, _, _)
SumWeights(sources, t, sum) ==
  IF sources = <<>> THEN sum
  ELSE SumWeights(Tail(sources), t,
                  Add(sum, Mul(Head(sources).confidence, ageWeight(Head(sources), t))))

\* sources.reduce((sum, s) => sum + s.price, 0)
RECURSIVE SumPrices(_, _)
SumPrices(sources, sum) ==
  IF sources = <<>> THEN sum
  ELSE SumPrices(Tail(sources), Add(sum, Head(sources).price))

\* a sum of the squares of the confidences
RECURSIVE SumConfidences_Squares(_, _)
SumConfidences_Squares(sources, sum) ==
  IF sources = <<>> THEN sum
  ELSE SumConfidences_Squares(Tail(sources),
         Add(sum, Mul(Head(sources).confidence, Head(sources).confidence)))

\* sources.reduce((sum, s) => sum + s.confidence, 0)
RECURSIVE SumConfidences(_, _)
SumConfidences(sources, sum) ==
  IF sources = <<>> THEN sum
  ELSE SumConfidences(Tail(sources), Add(sum, Head(sources).confidence))

\* sources.reduce((sum, source) => sum + source.price * weight, 0) with
\* weight = (source.confidence * ageWeight) / totalWeight
RECURSIVE SumWeightedPrices(_, _, _, _)
SumWeightedPrices(sources, t, totalWeight, sum) ==
  IF sources = <<>> THEN sum
  ELSE LET source == Head(sources)
           weight == Div(Mul(source.confidence, ageWeight(source, t)), totalWeight)
       IN  SumWeightedPrices(Tail(sources), t, totalWeight,
                             Add(sum, Mul(source.price, weight)))

\* The value of calculateWeightedAverage(sources) when Date.now() is t:
\* [threw |-> TRUE] for an empty list, else the price and the confidence.
Threw == [threw |-> TRUE, price |-> NaN, confidence |-> NaN]

\* a consensus that damps a single observation by its age
calculateWeightedAverage_Dampened(sources, t) ==
  IF Len(sources) = 0 THEN Threw
  ELSE IF Len(sources) = 1
  THEN [threw |-> FALSE, price |-> sources[1].price,
        confidence |-> Mul(sources[1].confidence, ageWeight(sources[1], t))]
  ELSE LET totalWeight == SumWeights(sources, t, Num(0))
           avgConfidence == Div(SumConfidences(sources, Num(0)), Num(Len(sources)))
       IN  IF totalWeight = Num(0)
           THEN [threw |-> FALSE,
                 price |-> Div(SumPrices(sources, Num(0)), Num(Len(sources))),
                 confidence |-> avgConfidence]
           ELSE [threw |-> FALSE,
                 price |-> SumWeightedPrices(sources, t, totalWeight, Num(0)),
                 confidence |-> avgConfidence]

\* a consensus without the branch for a weight sum of zero
calculateWeightedAverage_NoFallback(sources, t) ==
  IF Len(sources) = 0 THEN Threw
  ELSE IF Len(sources) = 1
  THEN [threw |-> FALSE, price |-> sources[1].price,
        confidence |-> sources[1].confidence]
  ELSE LET totalWeight == SumWeights(sources, t, Num(0))
           avgConfidence == Div(SumConfidences(sources, Num(0)), Num(Len(sources)))
       IN  [threw |-> FALSE,
            price |-> SumWeightedPrices(sources, t, totalWeight, Num(0)),
            confidence |-> avgConfidence]

calculateWeightedAverage(sources, t) ==
  IF Len(sources) = 0 THEN Threw
  ELSE IF Len(sources) = 1
  THEN [threw |-> FALSE, price |-> sources[1].price,
        confidence |-> sources[1].confidence]
  ELSE LET totalWeight == SumWeights(sources, t, Num(0))
           avgConfidence == Div(SumConfidences(sources, Num(0)), Num(Len(sources)))
       IN  IF totalWeight = Num(0)
           THEN [threw |-> FALSE,
                 price |-> Div(SumPrices(sources, Num(0)), Num(Len(sources))),
                 confidence |-> avgConfidence]
           ELSE [threw |-> FALSE,
                 price |-> SumWeightedPrices(sources, t, totalWeight, Num(0)),
                 confidence |-> avgConfidence]

\* prices.reduce((sum, price) => sum + Math.pow(price - avgPrice, 2), 0)
RECURSIVE SumSquares(_, _, _)
SumSquares(sources, avgPrice, sum) ==
  IF sources = <<>> THEN sum
  ELSE LET diff == Sub(Head(sources).price, avgPrice)
       IN  SumSquares(Tail(sources), avgPrice, Add(sum, Mul(diff, diff)))

\* a deviation from the sample variance, which divides by n - 1
calculateDeviation_Sample(sources) ==
  IF Len(sources) <= 1 THEN Num(0)
  ELSE LET avgPrice == Div(SumPrices(sources, Num(0)), Num(Len(sources)))
           variance == Div(SumSquares(sources, avgPrice, Num(0)), Num(Len(sources) - 1))
           standardDeviation == MathSqrt(variance)
       IN  Mul(Div(standardDeviation, avgPrice), Lit(100))

\* calculateDeviation(sources): the standard deviation of the prices as a
\* percentage of their mean
calculateDeviation(sources) ==
  IF Len(sources) <= 1 THEN Num(0)
  ELSE LET avgPrice == Div(SumPrices(sources, Num(0)), Num(Len(sources)))
           variance == Div(SumSquares(sources, avgPrice, Num(0)), Num(Len(sources)))
           standardDeviation == MathSqrt(variance)
       IN  Mul(Div(standardDeviation, avgPrice), Lit(100))

\* the literal 0.1 of the threshold test
Threshold == Fl(<<1, 10>>)

\* (priceDiff / avgPrice) * 100 of a pair of sources
spreadPercentage(sourceI, sourceJ) ==
  LET priceDiff == MathAbs(Sub(sourceI.price, sourceJ.price))
      avgPrice == Div(Add(sourceI.price, sourceJ.price), Lit(2))
  IN  Mul(Div(priceDiff, avgPrice), Lit(100))

\* a test that lets every pair through
Emits_Always(spread) == TRUE

\* if (spreadPercentage > 0.1)
Emits(spread) == Lt(Threshold, spread)

\* an opportunity with the two roles exchanged
Opportunity_Swapped(sourceI, sourceJ) ==
  [buy_source |-> IF Lt(sourceI.price, sourceJ.price)
                  THEN sourceJ.source ELSE sourceI.source,
   sell_source |-> IF Lt(sourceI.price, sourceJ.price)
                   THEN sourceI.source ELSE sourceJ.source,
   spread_percentage |-> spreadPercentage(sourceI, sourceJ),
   profit_potential |-> MathAbs(Sub(sourceI.price, sourceJ.price)),
   confidence |-> MathMin(sourceI.confidence, sourceJ.confidence)]

\* the object pushed for the pair (sourceI, sourceJ)
Opportunity(sourceI, sourceJ) ==
  [buy_source |-> IF Lt(sourceI.price, sourceJ.price)
                  THEN sourceI.source ELSE sourceJ.source,
   sell_source |-> IF Lt(sourceI.price, sourceJ.price)
                   THEN sourceJ.source ELSE sourceI.source,
   spread_percentage |-> spreadPercentage(sourceI, sourceJ),
   profit_potential |-> MathAbs(Sub(sourceI.price, sourceJ.price)),
   confidence |-> MathMin(sourceI.confidence, sourceJ.confidence)]

\* the two nested loops from the pair (i, j) on, in the order of the pushes
RECURSIVE Opportunities(_, _, _)
Opportunities(sources, i, j) ==
  IF i > Len(sources) THEN <<>>
  ELSE IF j > Len(sources) THEN Opportunities(sources, i + 1, i + 2)
  ELSE (IF Emits(spreadPercentage(sources[i], sources[j]))
        THEN <<Opportunity(sources[i], sources[j])>> ELSE <<>>)
       \o Opportunities(sources, i, j + 1)

\* the comparator (a, b) => b.spread_percentage - a.spread_percentage
Compare(a, b) == Sub(b.spread_percentage, a.spread_percentage)

\* x inserted into a sorted list before the first element it must precede
RECURSIVE Insert(_, _)
Insert(x, list) ==
  IF list = <<>> THEN <<x>>
  ELSE IF Lt(Compare(x, Head(list)), Num(0)) THEN <<x>> \o list
  ELSE <<Head(list)>> \o Insert(x, Tail(list))

\* Array.prototype.sort with the comparator: a stable sort
RECURSIVE SortBySpread(_)
SortBySpread(list) ==
  IF list = <<>> THEN <<>>
  ELSE Insert(list[Len(list)], SortBySpread(SubSeq(list, 1, Len(list) - 1)))

\* the opportunities in the order of the pushes
detectArbitrage_Unsorted(sources) == Opportunities(sources, 1, 2)

\* detectArbitrage(sources)
detectArbitrage(sources) == SortBySpread(Opportunities(sources, 1, 2))

(***************************************************************************)
(* The running system: requests to UnifiedPriceEngine.getUnifiedPrice, the *)
(* Redis store behind RedisConnection and the registry of WebSocketManager.*)
(***************************************************************************)
MaxTime == 2
MaxTtl == 1

Conns == {"A", "B"}
Reqs == {"r1", "r2"}
Adapters == <<"chainlink", "pyth">>

\* the (chain, symbol) arguments of requests and messages; the last one is
\* a message without symbol and chain
Pairs == {<<"a", "b:c">>, <<"a:b", "c">>, <<"p", "m">>}
NoPair == <<"", "">>

\* const subscriptionKey = `${chain}:${symbol}`
subscriptionKey(chain, symbol) == chain \o ":" \o symbol

\* const cacheKey = `unified:${chain}:${symbol}`
cacheKey(chain, symbol) == "unified:" \o chain \o ":" \o symbol

Keys == {subscriptionKey(p[1], p[2]) : p \in Pairs}
CacheKeys == {cacheKey(p[1], p[2]) : p \in Pairs}

VARIABLES
  now,            \* Date.now(), in ticks
  redisState,     \* "ready", or "failed": the client is null or its commands reject
  store,          \* the Redis keyspace: cache key -> [present, val, exp]
  ttlPrice,       \* parseInt(process.env['CACHE_TTL_PRICE'] || '30', 10)
  readyState,     \* ws.readyState of every connection ("NONE" before it connects)
  subscriptions,  \* WebSocketManager.subscriptions: connection -> [reg, keys]
  peerDead,       \* connections whose peer is gone while the socket still reads OPEN
  req,            \* the invocations of getUnifiedPrice and their callers
  outbox,         \* the ws.send calls of the last step, per connection
  lastOp,         \* the last step, when it was a broadcast or a cache write
  unsub,          \* per connection, the keys unsubscribed and not subscribed again
  lastSet,        \* per cache key, the last completed set: [done, val, at, ttl]
  calcIn,         \* the argument of the pure function under check
  calcOut,        \* its value
  rateLimit       \* rateLimitMiddleware: one client's counter and requests

vars == <<now, redisState, store, ttlPrice, readyState, subscriptions, peerDead,
          req, outbox, lastOp, unsub, lastSet, calcIn, calcOut, rateLimit>>

sysVars == <<now, redisState, store, ttlPrice, readyState, subscriptions, peerDead,
             req, outbox, lastOp, unsub, lastSet, rateLimit>>

\* what the steps of the engine and of the WebSocket manager leave alone
calcVars == <<calcIn, calcOut, rateLimit>>

\* UnifiedPriceData, and the value standing for "no data"
NoData == [symbol |-> "", chain |-> "", price |-> NaN, confidence |-> NaN,
           timestamp |-> 0, sources |-> <<>>, source_count |-> 0,
           price_deviation |-> NaN, arbitrage_opportunities |-> <<>>]

NoExpiry == -1
NoEntry == [present |-> FALSE, val |-> <<"json", NoData>>, exp |-> NoExpiry]
NoSet == [done |-> FALSE, val |-> <<"json", NoData>>, at |-> 0, ttl |-> 0]

\* the state of one adapter call of a request
NoObs == [price |-> NaN, confidence |-> NaN, timestamp |-> 0]
NoCall == [st |-> "none", value |-> NoObs]
Pending == [st |-> "pending", value |-> NoObs]

IdleReq == [pc |-> "idle", symbol |-> "", chain |-> "", origin |-> "",
            calls |-> <<NoCall, NoCall>>, result |-> NoData, err |-> "",
            wrote |-> FALSE]

\* the rate limiter before any request: no counter entry in Redis, no request
\* in the middleware, nobody admitted.  The entry is the key
\* `ratelimit:${identifier}` of one client: [present, val, exp, since], since
\* being the time of the SETEX that created it.
RateReqs == {"q1", "q2", "q3"}
NoCounter == [present |-> FALSE, val |-> 0, exp |-> NoExpiry, since |-> 0]
IdleRate == [pc |-> "idle", currentCount |-> 0]
NoRate == [entry |-> NoCounter, calls |-> [q \in RateReqs |-> IdleRate],
           admitted |-> <<>>]

NoMsgs == [c \in Conns |-> <<>>]
NoOp == [op |-> "", chain |-> "", symbol |-> ""]

InitSys ==
  /\ now = 0
  /\ redisState = "ready"
  /\ store = [k \in CacheKeys |-> NoEntry]
  /\ ttlPrice \in 0..MaxTtl
  /\ readyState = [c \in Conns |-> "NONE"]
  /\ subscriptions = [c \in Conns |-> [reg |-> FALSE, keys |-> {}]]
  /\ peerDead = {}
  /\ req = [r \in Reqs |-> IdleReq]
  /\ outbox = NoMsgs
  /\ lastOp = NoOp
  /\ unsub = [c \in Conns |-> {}]
  /\ lastSet = [k \in CacheKeys |-> NoSet]
  /\ rateLimit = NoRate

(***************************************************************************)
(* WebSocketManager                                                        *)
(***************************************************************************)
Msg(type, key, payload, c) ==
  [type |-> type, key |-> key, payload |-> payload, received |-> c \notin peerDead]

\* a send that does not look at the socket's state
sendMessage_Unchecked(c, type, key, payload) == <<Msg(type, key, payload, c)>>

\* sendMessage(ws, message): the messages handed to ws.send
sendMessage(c, type, key, payload) ==
  IF readyState[c] = "OPEN" THEN <<Msg(type, key, payload, c)>> ELSE <<>>

\* wss.on('connection'): register the connection, send the welcome message
Connection(c) ==
  /\ readyState[c] = "NONE"
  /\ readyState' = [readyState EXCEPT ![c] = "OPEN"]
  /\ subscriptions' = [subscriptions EXCEPT ![c] = [reg |-> TRUE, keys |-> {}]]
  /\ outbox' = [NoMsgs EXCEPT ![c] = <<Msg("heartbeat", "", NoData, c)>>]
  /\ UNCHANGED calcVars
  /\ lastOp' = NoOp
  /\ UNCHANGED <<now, redisState, store, ttlPrice, peerDead, req, unsub, lastSet>>

\* the socket starts closing (close frame sent or received, or terminate())
BeginClose(c) ==
  /\ readyState[c] = "OPEN"
  /\ readyState' = [readyState EXCEPT ![c] = "CLOSING"]
  /\ outbox' = NoMsgs
  /\ UNCHANGED calcVars
  /\ lastOp' = NoOp
  /\ UNCHANGED <<now, redisState, store, ttlPrice, subscriptions, peerDead, req,
                 unsub, lastSet>>

\* a close handler that leaves the registry entry in place
CloseEvent_KeepsEntry(c) ==
  /\ readyState[c] \in {"OPEN", "CLOSING"}
  /\ readyState' = [readyState EXCEPT ![c] = "CLOSED"]
  /\ peerDead' = peerDead \ {c}
  /\ unsub' = [unsub EXCEPT ![c] = {}]
  /\ outbox' = NoMsgs
  /\ UNCHANGED calcVars
  /\ lastOp' = NoOp
  /\ UNCHANGED <<now, redisState, store, ttlPrice, subscriptions, req, lastSet>>

\* ws.on('close'): this.subscriptions.delete(ws)
CloseEvent(c) ==
  /\ readyState[c] \in {"OPEN", "CLOSING"}
  /\ readyState' = [readyState EXCEPT ![c] = "CLOSED"]
  /\ subscriptions' = [subscriptions EXCEPT ![c] = [reg |-> FALSE, keys |-> {}]]
  /\ peerDead' = peerDead \ {c}
  /\ unsub' = [unsub EXCEPT ![c] = {}]
  /\ outbox' = NoMsgs
  /\ UNCHANGED calcVars
  /\ lastOp' = NoOp
  /\ UNCHANGED <<now, redisState, store, ttlPrice, req, lastSet>>

\* the peer of an open connection disappears without a close frame
PeerDies(c) ==
  /\ readyState[c] = "OPEN"
  /\ c \notin peerDead
  /\ peerDead' = peerDead \cup {c}
  /\ outbox' = NoMsgs
  /\ UNCHANGED calcVars
  /\ lastOp' = NoOp
  /\ UNCHANGED <<now, redisState, store, ttlPrice, readyState, subscriptions, req,
                 unsub, lastSet>>

FreeSlot(r) == req[r].pc = "idle"

\* the first step of getUnifiedPrice(symbol, chain): this.redis.get(cacheKey)
\* is issued and the invocation waits for the reply
StartReq(chain, symbol, origin) ==
  [IdleReq EXCEPT !.pc = "probing", !.symbol = symbol, !.chain = chain,
                  !.origin = origin]

\* handleSubscribe(ws, message) up to its await of getUnifiedPrice
HandleSubscribe(c, pair, r) ==
  /\ readyState[c] # "NONE"
  /\ UNCHANGED calcVars
  /\ lastOp' = NoOp
  /\ IF pair = NoPair
     THEN /\ outbox' = [NoMsgs EXCEPT ![c] = sendMessage(c, "error", "", NoData)]
          /\ UNCHANGED <<subscriptions, req, unsub>>
     ELSE IF subscriptions[c].reg
     THEN LET key == subscriptionKey(pair[1], pair[2])
          IN  /\ FreeSlot(r)
              /\ subscriptions' = [subscriptions EXCEPT ![c].keys = @ \cup {key}]
              /\ unsub' = [unsub EXCEPT ![c] = @ \ {key}]
              /\ outbox' = [NoMsgs EXCEPT ![c] = sendMessage(c, "subscribe", key, NoData)]
              /\ req' = [req EXCEPT ![r] = StartReq(pair[1], pair[2], c)]
     ELSE /\ outbox' = NoMsgs
          /\ UNCHANGED <<subscriptions, req, unsub>>
  /\ UNCHANGED <<now, redisState, store, ttlPrice, readyState, peerDead, lastSet>>

\* handleUnsubscribe(ws, message)
HandleUnsubscribe(c, pair) ==
  /\ readyState[c] # "NONE"
  /\ UNCHANGED calcVars
  /\ lastOp' = NoOp
  /\ IF pair = NoPair
     THEN /\ outbox' = [NoMsgs EXCEPT ![c] = sendMessage(c, "error", "", NoData)]
          /\ UNCHANGED <<subscriptions, unsub>>
     ELSE IF subscriptions[c].reg
     THEN LET key == subscriptionKey(pair[1], pair[2])
          IN  /\ subscriptions' = [subscriptions EXCEPT ![c].keys = @ \ {key}]
              /\ unsub' = [unsub EXCEPT ![c] = @ \cup {key}]
              /\ outbox' = [NoMsgs EXCEPT ![c] = sendMessage(c, "unsubscribe", key, NoData)]
     ELSE /\ outbox' = NoMsgs
          /\ UNCHANGED <<subscriptions, unsub>>
  /\ UNCHANGED <<now, redisState, store, ttlPrice, readyState, peerDead, req, lastSet>>

\* the forEach body without the key test: every open registered connection
\* is sent the update
broadcastTo_AnyKey(c, key, priceData) ==
  IF subscriptions[c].reg /\ readyState[c] = "OPEN"
  THEN <<[type |-> "price_update", key |-> key, payload |-> priceData,
          received |-> c \notin peerDead]>>
  ELSE <<>>

\* the body of the forEach of broadcastPriceUpdate for one registry entry
broadcastTo(c, key, priceData) ==
  IF subscriptions[c].reg /\ key \in subscriptions[c].keys /\ readyState[c] = "OPEN"
  THEN sendMessage(c, "price_update", key, priceData)
  ELSE <<>>

\* a broadcast whose loop is aborted by the first subscribed connection that
\* is not open (as if the send to it threw): the connections after it in the
\* registry get nothing
ConnOrder == <<"A", "B">>

RECURSIVE DeliverUntilDead(_, _, _)
DeliverUntilDead(i, key, priceData) ==
  IF i > Len(ConnOrder) THEN NoMsgs
  ELSE LET c == ConnOrder[i]
       IN  IF subscriptions[c].reg /\ key \in subscriptions[c].keys
              /\ readyState[c] # "OPEN"
           THEN NoMsgs
           ELSE [DeliverUntilDead(i + 1, key, priceData) EXCEPT
                   ![c] = IF subscriptions[c].reg /\ key \in subscriptions[c].keys
                          THEN <<[type |-> "price_update", key |-> key,
                                  payload |-> priceData,
                                  received |-> c \notin peerDead]>>
                          ELSE <<>>]

broadcastPriceUpdate_AbortOnDead(symbol, chain, priceData) ==
  DeliverUntilDead(1, chain \o ":" \o symbol, priceData)

\* broadcastPriceUpdate(symbol, chain, priceData)
broadcastPriceUpdate(symbol, chain, priceData) ==
  [c \in Conns |-> broadcastTo(c, subscriptionKey(chain, symbol), priceData)]

\* the data a caller may broadcast for a pair: a result an invocation has
\* returned for it, or some other result carrying the pair
Sample(pair) == [NoData EXCEPT !.symbol = pair[2], !.chain = pair[1],
                               !.price = Num(1), !.confidence = Num(1),
                               !.sources = <<"chainlink">>, !.source_count = 1,
                               !.price_deviation = Num(0)]

BroadcastData(pair) ==
  {Sample(pair)} \cup
  {req[r].result : r \in {q \in Reqs : req[q].pc = "done" /\ req[q].chain = pair[1]
                                        /\ req[q].symbol = pair[2]}}

Broadcast(pair) ==
  /\ \E priceData \in BroadcastData(pair) :
       outbox' = broadcastPriceUpdate(pair[2], pair[1], priceData)
  /\ UNCHANGED calcVars
  /\ lastOp' = [op |-> "broadcast", chain |-> pair[1], symbol |-> pair[2]]
  /\ UNCHANGED <<now, redisState, store, ttlPrice, readyState, subscriptions,
                 peerDead, req, unsub, lastSet>>

\* the setInterval callback of startHeartbeat: a heartbeat message to every
\* client of the server that is open
Heartbeat ==
  /\ outbox' = [c \in Conns |-> sendMessage(c, "heartbeat", "", NoData)]
  /\ UNCHANGED calcVars
  /\ lastOp' = [op |-> "heartbeat", chain |-> "", symbol |-> ""]
  /\ UNCHANGED <<now, redisState, store, ttlPrice, readyState, subscriptions,
                 peerDead, req, unsub, lastSet>>

\* getActiveSubscriptions() on the registry subs: the sizes of the sets of
\* the entries, from the i-th connection on
RECURSIVE SumSizes(_, _)
SumSizes(i, subs) ==
  IF i > Len(ConnOrder) THEN 0
  ELSE (IF subs[ConnOrder[i]].reg THEN Cardinality(subs[ConnOrder[i]].keys) ELSE 0)
       + SumSizes(i + 1, subs)

getActiveSubscriptions(subs) == SumSizes(1, subs)

(***************************************************************************)
(* RedisConnection                                                         *)
(***************************************************************************)
\* getClient() returns a client whose commands are answered
redisOk == redisState = "ready"

\* the reply of GET key at time t: the entry when it exists and has not expired
RedisGet(k, t) ==
  IF store[k].present /\ (store[k].exp = NoExpiry \/ t < store[k].exp)
  THEN store[k] ELSE NoEntry

\* RedisConnection.set that drops the ttl: always SET without expiry
RedisSet_NoExpiry(value, ttl, t) ==
  [present |-> TRUE, val |-> value, exp |-> NoExpiry]

\* RedisConnection.set(key, value, ttl) at time t: SETEX when ttl is truthy,
\* else SET without expiry
RedisSet(value, ttl, t) ==
  [present |-> TRUE, val |-> value, exp |-> IF ttl # 0 THEN t + ttl ELSE NoExpiry]

\* JSON.stringify / JSON.parse of a UnifiedPriceData: NaN is written as null
Null == <<0, -1>>
JsonNum(x) == IF IsNaN(x) THEN Null ELSE x
JSONstringify(d) ==
  <<"json", [d EXCEPT !.price = JsonNum(@), !.confidence = JsonNum(@),
                      !.price_deviation = JsonNum(@)]>>
JSONparse(str) == str[2]

(***************************************************************************)
(* UnifiedPriceEngine.getUnifiedPrice                                      *)
(***************************************************************************)
\* what the adapters can answer at time t.  ChainlinkService.getPrice: the
\* integer price of the feed with confidence 0.98 (a fresh round);
\* PythService.getPrice: the placeholder price 0 with confidence 0.95
ChainlinkPrice == Num(3)
ChainlinkConfidence == Fl(<<49, 50>>)
PythPrice == Num(0)
PythConfidence == Fl(<<19, 20>>)

AdapterObs(i, t) ==
  IF i = 1
  THEN {[price |-> ChainlinkPrice, confidence |-> ChainlinkConfidence,
         timestamp |-> t]}
  ELSE {[price |-> PythPrice, confidence |-> PythConfidence, timestamp |-> t]}

Settled(call) == call.st \in {"null", "rejected", "value"}

\* a source pushed for every fulfilled promise, a null value included
Source_Fulfilled(i, call) ==
  IF call.st \in {"value", "null"}
  THEN <<[source |-> Adapters[i], price |-> call.value.price,
          confidence |-> call.value.confidence, timestamp |-> call.value.timestamp]>>
  ELSE <<>>

\* the sources list built from the two settled promises
Source(i, call) ==
  IF call.st = "value"
  THEN <<[source |-> Adapters[i], price |-> call.value.price,
          confidence |-> call.value.confidence, timestamp |-> call.value.timestamp]>>
  ELSE <<>>

\* a sources list that takes the Chainlink result twice
BuildSources_Twice(calls) ==
  Source(1, calls[1]) \o Source(1, calls[1]) \o Source(2, calls[2])

BuildSources(calls) == Source(1, calls[1]) \o Source(2, calls[2])

\* sources.map(s => s.source)
RECURSIVE SourceNames(_)
SourceNames(sources) ==
  IF sources = <<>> THEN <<>>
  ELSE <<Head(sources).source>> \o SourceNames(Tail(sources))

\* the unifiedData object
UnifiedData(symbol, chain, sources, t) ==
  LET weightedPrice == calculateWeightedAverage(sources, t)
  IN  [symbol |-> symbol, chain |-> chain, price |-> weightedPrice.price,
       confidence |-> weightedPrice.confidence, timestamp |-> t,
       sources |-> SourceNames(sources), source_count |-> Len(sources),
       price_deviation |-> calculateDeviation(sources),
       arbitrage_opportunities |-> detectArbitrage(sources)]

\* the settled promises are kept by their status only once the sources are built
Strip(calls) == [i \in 1..2 |-> [st |-> calls[i].st, value |-> NoObs]]

Fail(q, e) == [q EXCEPT !.pc = "failed", !.err = e, !.result = NoData,
                        !.calls = Strip(@)]

\* a caller outside the WebSocket manager (PriceController) invokes
\* getUnifiedPrice(symbol, chain)
HttpRequest(r, pair) ==
  /\ FreeSlot(r)
  /\ req' = [req EXCEPT ![r] = StartReq(pair[1], pair[2], "http")]
  /\ outbox' = NoMsgs
  /\ UNCHANGED calcVars
  /\ lastOp' = NoOp
  /\ UNCHANGED <<now, redisState, store, ttlPrice, readyState, subscriptions,
                 peerDead, unsub, lastSet>>

\* a probe that consumes the entry it hit
ProbeReturn_Consume(r) ==
  /\ req[r].pc = "probing"
  /\ LET k == cacheKey(req[r].chain, req[r].symbol)
         cached == RedisGet(k, now)
     IN  /\ req' = [req EXCEPT ![r] =
                      IF ~redisOk THEN Fail(@, "cache")
                      ELSE IF cached.present
                      THEN [@ EXCEPT !.pc = "done", !.result = JSONparse(cached.val)]
                      ELSE [@ EXCEPT !.pc = "fetching", !.calls = <<Pending, Pending>>]]
         /\ store' = IF redisOk /\ cached.present
                     THEN [store EXCEPT ![k] = NoEntry]
                     ELSE store
  /\ outbox' = NoMsgs
  /\ UNCHANGED calcVars
  /\ lastOp' = NoOp
  /\ UNCHANGED <<now, redisState, ttlPrice, readyState, subscriptions,
                 peerDead, unsub, lastSet>>

\* a probe that, on a miss, does not fetch while another invocation is at
\* work on the same key
ProbeReturn_Coalesce(r) ==
  /\ req[r].pc = "probing"
  /\ LET k == cacheKey(req[r].chain, req[r].symbol)
         cached == RedisGet(k, now)
         busy == \E q \in Reqs \ {r} :
                   /\ req[q].pc \in {"fetching", "storing"}
                   /\ cacheKey(req[q].chain, req[q].symbol) = k
     IN  req' = [req EXCEPT ![r] =
                   IF ~redisOk THEN Fail(@, "cache")
                   ELSE IF cached.present
                   THEN [@ EXCEPT !.pc = "done", !.result = JSONparse(cached.val)]
                   ELSE IF busy THEN Fail(@, "busy")
                   ELSE [@ EXCEPT !.pc = "fetching", !.calls = <<Pending, Pending>>]]
  /\ outbox' = NoMsgs
  /\ UNCHANGED calcVars
  /\ lastOp' = NoOp
  /\ UNCHANGED <<now, redisState, store, ttlPrice, readyState, subscriptions,
                 peerDead, unsub, lastSet>>

\* the reply of this.redis.get(cacheKey) arrives: error, hit or miss
ProbeReturn(r) ==
  /\ req[r].pc = "probing"
  /\ LET cached == RedisGet(cacheKey(req[r].chain, req[r].symbol), now)
     IN  req' = [req EXCEPT ![r] =
                   IF ~redisOk THEN Fail(@, "cache")
                   ELSE IF cached.present
                   THEN [@ EXCEPT !.pc = "done", !.result = JSONparse(cached.val)]
                   ELSE [@ EXCEPT !.pc = "fetching", !.calls = <<Pending, Pending>>]]
  /\ outbox' = NoMsgs
  /\ UNCHANGED calcVars
  /\ lastOp' = NoOp
  /\ UNCHANGED <<now, redisState, store, ttlPrice, readyState, subscriptions,
                 peerDead, unsub, lastSet>>

\* one adapter promise settles in one of the allowed ways: with null, with a
\* rejection, or (the adapter needs Redis for its own cache) with an observation
AdapterSettle(r, i, allowed) ==
  /\ req[r].pc = "fetching"
  /\ req[r].calls[i].st = "pending"
  /\ \E call \in allowed :
       /\ call.st = "value" => redisOk
       /\ req' = [req EXCEPT ![r].calls[i] = call]
  /\ outbox' = NoMsgs
  /\ UNCHANGED calcVars
  /\ lastOp' = NoOp
  /\ UNCHANGED <<now, redisState, store, ttlPrice, readyState, subscriptions,
                 peerDead, unsub, lastSet>>

\* one adapter call stops making progress: its promise will never settle
AdapterHang(r, i) ==
  /\ req[r].pc = "fetching"
  /\ req[r].calls[i].st = "pending"
  /\ req' = [req EXCEPT ![r].calls[i].st = "hung"]
  /\ outbox' = NoMsgs
  /\ UNCHANGED calcVars
  /\ lastOp' = NoOp
  /\ UNCHANGED <<now, redisState, store, ttlPrice, readyState, subscriptions,
                 peerDead, unsub, lastSet>>

\* the join without the check of line 68: an empty sources list goes on to
\* the consensus computation and the cache write
Computed_NoEmptyCheck(q, t) ==
  [q EXCEPT !.pc = "storing", !.calls = Strip(@),
            !.result = UnifiedData(q.symbol, q.chain, BuildSources(q.calls), t)]

\* the invocation q after Promise.allSettled has resolved at time t: the
\* no-data error when there are no sources, else the result to be stored
Computed(q, t) ==
  LET sources == BuildSources(q.calls)
  IN  IF Len(sources) = 0 THEN Fail(q, "nodata")
      ELSE [q EXCEPT !.pc = "storing", !.calls = Strip(@),
                     !.result = UnifiedData(q.symbol, q.chain, sources, t)]

\* Promise.allSettled resolves: build the sources, throw when there are none,
\* else compute the result and issue this.redis.set
Compute(r) ==
  /\ req[r].pc = "fetching"
  /\ \A i \in 1..2 : Settled(req[r].calls[i])
  /\ req' = [req EXCEPT ![r] = Computed(req[r], now)]
  /\ outbox' = NoMsgs
  /\ UNCHANGED calcVars
  /\ lastOp' = NoOp
  /\ UNCHANGED <<now, redisState, store, ttlPrice, readyState, subscriptions,
                 peerDead, unsub, lastSet>>

\* a store that leaves an entry that is still present alone (SET NX)
StoreReturn_IfAbsent(r) ==
  /\ req[r].pc = "storing"
  /\ LET k == cacheKey(req[r].chain, req[r].symbol)
         value == JSONstringify(req[r].result)
     IN  IF ~redisOk
         THEN /\ req' = [req EXCEPT ![r] = Fail(@, "cache")]
              /\ UNCHANGED <<store, lastSet>>
         ELSE /\ req' = [req EXCEPT ![r].pc = "done", ![r].wrote = TRUE]
              /\ store' = IF RedisGet(k, now).present THEN store
                          ELSE [store EXCEPT ![k] = RedisSet(value, ttlPrice, now)]
              /\ lastSet' = [lastSet EXCEPT ![k] =
                               [done |-> TRUE, val |-> value, at |-> now, ttl |-> ttlPrice]]
  /\ outbox' = NoMsgs
  /\ UNCHANGED calcVars
  /\ lastOp' = IF redisOk
                THEN [op |-> "store", chain |-> req[r].chain, symbol |-> req[r].symbol]
                ELSE NoOp
  /\ UNCHANGED <<now, redisState, ttlPrice, readyState, subscriptions, peerDead, unsub>>

\* the reply of this.redis.set arrives: an error is rethrown, else the entry is
\* written and the result returned
StoreReturn(r) ==
  /\ req[r].pc = "storing"
  /\ LET k == cacheKey(req[r].chain, req[r].symbol)
         value == JSONstringify(req[r].result)
     IN  IF ~redisOk
         THEN /\ req' = [req EXCEPT ![r] = Fail(@, "cache")]
              /\ UNCHANGED <<store, lastSet>>
         ELSE /\ req' = [req EXCEPT ![r].pc = "done", ![r].wrote = TRUE]
              /\ store' = [store EXCEPT ![k] = RedisSet(value, ttlPrice, now)]
              /\ lastSet' = [lastSet EXCEPT ![k] =
                               [done |-> TRUE, val |-> value, at |-> now, ttl |-> ttlPrice]]
  /\ outbox' = NoMsgs
  /\ UNCHANGED calcVars
  /\ lastOp' = IF redisOk
                THEN [op |-> "store", chain |-> req[r].chain, symbol |-> req[r].symbol]
                ELSE NoOp
  /\ UNCHANGED <<now, redisState, ttlPrice, readyState, subscriptions, peerDead, unsub>>

\* the HTTP caller consumes the outcome
HttpRespond(r) ==
  /\ req[r].pc \in {"done", "failed"}
  /\ req[r].origin = "http"
  /\ req' = [req EXCEPT ![r] = IdleReq]
  /\ outbox' = NoMsgs
  /\ UNCHANGED calcVars
  /\ lastOp' = NoOp
  /\ UNCHANGED <<now, redisState, store, ttlPrice, readyState, subscriptions,
                 peerDead, unsub, lastSet>>

\* handleSubscribe resumes after its await: the initial price_update is sent,
\* or the error logged
SubscribeResume(r) ==
  /\ req[r].pc \in {"done", "failed"}
  /\ req[r].origin \in Conns
  /\ LET c == req[r].origin
     IN  outbox' = [NoMsgs EXCEPT ![c] =
                      IF req[r].pc = "done"
                      THEN sendMessage(c, "price_update",
                                       subscriptionKey(req[r].chain, req[r].symbol),
                                       req[r].result)
                      ELSE <<>>]
  /\ req' = [req EXCEPT ![r] = IdleReq]
  /\ UNCHANGED calcVars
  /\ lastOp' = NoOp
  /\ UNCHANGED <<now, redisState, store, ttlPrice, readyState, subscriptions,
                 peerDead, unsub, lastSet>>

(***************************************************************************)
(* The environment: time and the Redis server                              *)
(***************************************************************************)
Tick ==
  /\ now < MaxTime
  /\ now' = now + 1
  /\ outbox' = NoMsgs
  /\ UNCHANGED calcVars
  /\ lastOp' = NoOp
  /\ UNCHANGED <<redisState, store, ttlPrice, readyState, subscriptions, peerDead,
                 req, unsub, lastSet>>

\* the server becomes unreachable or disconnect() nulls the client; the server
\* comes back or connect() creates the client
RedisChange(st) ==
  /\ st # redisState
  /\ redisState' = st
  /\ outbox' = NoMsgs
  /\ UNCHANGED calcVars
  /\ lastOp' = NoOp
  /\ UNCHANGED <<now, store, ttlPrice, readyState, subscriptions, peerDead, req,
                 unsub, lastSet>>

\* the settled states an adapter promise can take at time t
Outcomes(i, t) ==
  {[st |-> "null", value |-> NoObs], [st |-> "rejected", value |-> NoObs]}
  \cup {[st |-> "value", value |-> o] : o \in AdapterObs(i, t)}

\* the settled states when no Pyth feed carries the symbol and the Chainlink
\* adapter answers null or an observation
Answers(i, t) ==
  {call \in Outcomes(i, t) : call.st = "null" \/ (i = 1 /\ call.st = "value")}

\* the steps of the invocations in the slots R of getUnifiedPrice, the adapter
\* promises settling as O allows
EngineNext(R, O(_, _)) ==
  \/ \E r \in R : ProbeReturn(r)
  \/ \E r \in R, i \in 1..2 : AdapterSettle(r, i, O(i, now))
  \/ \E r \in R : Compute(r)
  \/ \E r \in R : StoreReturn(r)

\* the HTTP callers of the engine
HttpNext(R) ==
  \/ \E r \in R, pair \in Pairs : HttpRequest(r, pair)
  \/ \E r \in R : HttpRespond(r)

\* the environment
EnvNext(R) ==
  \/ \E r \in R, i \in 1..2 : AdapterHang(r, i)
  \/ Tick
  \/ \E st \in {"ready", "failed"} : RedisChange(st)

\* the steps of the WebSocket manager, its handlers calling the engine in the
\* slots R
WsNext(R) ==
  \/ \E c \in Conns : Connection(c)
  \/ \E c \in Conns : BeginClose(c)
  \/ \E c \in Conns : CloseEvent(c)
  \/ \E c \in Conns, pair \in Pairs \cup {NoPair}, r \in R : HandleSubscribe(c, pair, r)
  \/ \E c \in Conns, pair \in Pairs \cup {NoPair} : HandleUnsubscribe(c, pair)
  \/ \E pair \in Pairs : Broadcast(pair)
  \/ \E r \in R : SubscribeResume(r)

Next ==
  \/ EngineNext(Reqs, Outcomes) \/ HttpNext(Reqs) \/ EnvNext(Reqs) \/ WsNext(Reqs)
  \/ \E c \in Conns : PeerDies(c)

NoCalc == [op |-> "none", average |-> Threw, deviation |-> NaN,
           opportunities |-> <<>>]

Init == InitSys /\ calcIn = <<>> /\ calcOut = NoCalc

Spec == Init /\ [][Next]_vars

\* one invocation at a time, called over HTTP, in the full environment
NextEngine == EngineNext({"r1"}, Outcomes) \/ HttpNext({"r1"}) \/ EnvNext({"r1"})

SpecEngine == Init /\ [][NextEngine]_vars

\* the WebSocket manager with one subscribe handler in flight at a time
NextWs == EngineNext({"r1"}, Answers) \/ WsNext({"r1"})

InitWs == Init /\ ttlPrice = MaxTtl

SpecWs == InitWs /\ [][NextWs]_vars

\* the registry and the fan-out: every operation on the registry, peers that
\* die, and subscribe handlers whose initial fetch finds no data
NextFanout ==
  \/ WsNext({"r1"})
  \/ \E c \in Conns : PeerDies(c)
  \/ \E r \in {"r1"} : ProbeReturn(r)
  \/ \E r \in {"r1"}, i \in 1..2 : AdapterSettle(r, i, {[st |-> "null", value |-> NoObs]})
  \/ \E r \in {"r1"} : Compute(r)

SpecFanout == InitWs /\ [][NextFanout]_vars

(***************************************************************************)
(* rateLimitMiddleware, for the requests of one client identifier.  The    *)
(* limit of the client's tier is Limit and the window of 900000 ms is      *)
(* RateWindow ticks.                                                       *)
(***************************************************************************)
Limit == 2
RateWindow == 3

\* the counter entry as a command sees it at time t: an expired key is gone
Counter(t) ==
  IF rateLimit.entry.present
     /\ (rateLimit.entry.exp = NoExpiry \/ t < rateLimit.entry.exp)
  THEN rateLimit.entry ELSE NoCounter

\* SETEX key ttl '1'
RateSetex(t) == [present |-> TRUE, val |-> 1, exp |-> t + RateWindow, since |-> t]

\* INCR key: a missing key is created with the value 1 and no expiry, an
\* existing one keeps its expiry
RateIncr(t) ==
  IF Counter(t).present THEN [Counter(t) EXCEPT !.val = @ + 1]
  ELSE [present |-> TRUE, val |-> 1, exp |-> NoExpiry, since |-> t]

\* the middleware is entered: redis.get(key) is issued
RateLimitEnter(q) ==
  /\ rateLimit.calls[q].pc = "idle"
  /\ rateLimit' = [rateLimit EXCEPT !.calls[q].pc = "get"]
  /\ outbox' = NoMsgs
  /\ lastOp' = NoOp
  /\ UNCHANGED <<now, redisState, store, ttlPrice, readyState, subscriptions,
                 peerDead, req, unsub, lastSet, calcIn, calcOut>>

\* the reply of redis.get(key) arrives: on an error the catch block calls
\* next(); at or above the limit the request is answered 429; else the set or
\* the incr is issued
RateLimitGet(q) ==
  /\ rateLimit.calls[q].pc = "get"
  /\ LET currentCount == Counter(now).val
     IN  rateLimit' =
           IF ~redisOk
           THEN [rateLimit EXCEPT !.calls[q].pc = "next",
                                  !.admitted = Append(@, now)]
           ELSE IF currentCount >= Limit
           THEN [rateLimit EXCEPT !.calls[q] = [pc |-> "429", currentCount |-> currentCount]]
           ELSE [rateLimit EXCEPT !.calls[q] = [pc |-> "write", currentCount |-> currentCount]]
  /\ outbox' = NoMsgs
  /\ lastOp' = NoOp
  /\ UNCHANGED <<now, redisState, store, ttlPrice, readyState, subscriptions,
                 peerDead, req, unsub, lastSet, calcIn, calcOut>>

\* the reply of redis.set(key, '1', 900) or of redis.incr(key) arrives, the
\* headers are set and next() is called; on an error the catch block calls
\* next()
RateLimitWrite(q) ==
  /\ rateLimit.calls[q].pc = "write"
  /\ rateLimit' =
       IF ~redisOk
       THEN [rateLimit EXCEPT !.calls[q].pc = "next", !.admitted = Append(@, now)]
       ELSE [rateLimit EXCEPT
               !.entry = IF rateLimit.calls[q].currentCount = 0
                         THEN RateSetex(now) ELSE RateIncr(now),
               !.calls[q].pc = "next",
               !.admitted = Append(@, now)]
  /\ outbox' = NoMsgs
  /\ lastOp' = NoOp
  /\ UNCHANGED <<now, redisState, store, ttlPrice, readyState, subscriptions,
                 peerDead, req, unsub, lastSet, calcIn, calcOut>>

\* the requests of one client, arriving at any time and interleaved at will
NextRate ==
  \/ \E q \in RateReqs : RateLimitEnter(q)
  \/ \E q \in RateReqs : RateLimitGet(q)
  \/ \E q \in RateReqs : RateLimitWrite(q)
  \/ Tick

SpecRate == InitWs /\ [][NextRate]_vars

\* two invocations of getUnifiedPrice for one pair, running concurrently over
\* a Redis that stays reachable
RacePair == <<"p", "m">>

\* the adapters answer null or an observation
RaceOutcomes(i, t) == {call \in Outcomes(i, t) : call.st # "rejected"}

NextRace ==
  \/ \E r \in Reqs : HttpRequest(r, RacePair)
  \/ EngineNext(Reqs, RaceOutcomes)
  \/ \E r \in Reqs : HttpRespond(r)
  \/ Tick

SpecRace == InitWs /\ [][NextRace]_vars

(***************************************************************************)
(* The consensus arithmetic on its own: calculateWeightedAverage applied   *)
(* to every list of at most MaxSources observations over small sets of     *)
(* prices, confidences and ages, at Date.now() = 0.                        *)
(***************************************************************************)
MaxSources == 2

CalcPrices == {Num(1), Num(3)}
CalcConfidences == {Num(0), Fl(<<4, 5>>), Num(1)}
CalcAges == {0, 2, 3, 4}
CalcNames == <<"chainlink", "pyth", "bittensor">>

CalcSources(n) ==
  {[i \in 1..n |-> [source |-> CalcNames[i], price |-> f[i][1], confidence |-> f[i][2],
                    timestamp |-> 0 - f[i][3]]] :
     f \in [1..n -> CalcPrices \X CalcConfidences \X CalcAges]}

InitCalc ==
  /\ InitSys
  /\ ttlPrice = MaxTtl
  /\ calcIn \in UNION {CalcSources(n) : n \in 1..MaxSources}
  /\ calcOut = NoCalc

\* const weightedPrice = this.calculateWeightedAverage(sources)
CalcAverage ==
  /\ calcOut.op = "none"
  /\ calcOut' = [calcOut EXCEPT !.op = "average",
                                !.average = calculateWeightedAverage(calcIn, now)]
  /\ UNCHANGED <<calcIn, sysVars>>

\* price_deviation: this.calculateDeviation(sources)
CalcDeviation ==
  /\ calcOut.op = "none"
  /\ calcOut' = [calcOut EXCEPT !.op = "deviation",
                                !.deviation = calculateDeviation(calcIn)]
  /\ UNCHANGED <<calcIn, sysVars>>

NextCalc == CalcAverage \/ CalcDeviation

SpecCalc == InitCalc /\ [][NextCalc]_vars

(***************************************************************************)
(* calculateDeviation on its own, applied to every list of at most         *)
(* MaxSources observations whose prices include 100 and 102.               *)
(***************************************************************************)
DevPrices == {Num(1), Lit(100), Lit(102)}
DevConfidences == {Num(0), Num(1)}
DevAges == {0, 3}

DevSources(n) ==
  {[i \in 1..n |-> [source |-> CalcNames[i], price |-> f[i][1], confidence |-> f[i][2],
                    timestamp |-> 0 - f[i][3]]] :
     f \in [1..n -> DevPrices \X DevConfidences \X DevAges]}

InitDev ==
  /\ InitSys
  /\ ttlPrice = MaxTtl
  /\ calcIn \in UNION {DevSources(n) : n \in 1..MaxSources}
  /\ calcOut = NoCalc

NextDev == CalcDeviation

SpecDev == InitDev /\ [][NextDev]_vars

(***************************************************************************)
(* detectArbitrage on its own, applied to every list of at most            *)
(* MaxArbSources observations over small sets of prices and confidences.   *)
(***************************************************************************)
MaxArbSources == 3

ArbPrices == {Num(0), Num(1), Lit(100), Fl(<<203, 2>>)}
ArbConfidences == {Fl(<<9, 10>>), Fl(<<19, 20>>)}
ArbNames == <<"chainlink", "pyth", "source3", "source4">>

ArbSources(n) ==
  {[i \in 1..n |-> [source |-> ArbNames[i], price |-> f[i][1], confidence |-> f[i][2],
                    timestamp |-> 0]] :
     f \in [1..n -> ArbPrices \X ArbConfidences]}

InitArb ==
  /\ InitSys
  /\ ttlPrice = MaxTtl
  /\ calcIn \in UNION {ArbSources(n) : n \in 1..MaxArbSources}
  /\ calcOut = NoCalc

\* const arbitrageOpportunities = this.detectArbitrage(sources)
CalcArbitrage ==
  /\ calcOut.op = "none"
  /\ calcOut' = [calcOut EXCEPT !.op = "arbitrage",
                                !.opportunities = detectArbitrage(calcIn)]
  /\ UNCHANGED <<calcIn, sysVars>>

NextArb == CalcArbitrage

SpecArb == InitArb /\ [][NextArb]_vars

\* the smallest and the largest price of a non-empty list of sources
RECURSIVE MinPrice(_)
MinPrice(sources) ==
  IF Len(sources) = 1 THEN sources[1].price
  ELSE LET m == MinPrice(Tail(sources))
       IN  IF Lt(Head(sources).price, m) THEN Head(sources).price ELSE m

RECURSIVE MaxPrice(_)
MaxPrice(sources) ==
  IF Len(sources) = 1 THEN sources[1].price
  ELSE LET m == MaxPrice(Tail(sources))
       IN  IF Lt(m, Head(sources).price) THEN Head(sources).price ELSE m

\* C4: for every list of k >= 1 observations, the price computed by
\* calculateWeightedAverage lies between the smallest and the largest input
\* price, inclusive.
C4_PriceWithinRange ==
  calcOut.op = "average" =>
    /\ Le(MinPrice(calcIn), calcOut.average.price)
    /\ Le(calcOut.average.price, MaxPrice(calcIn))

\* C11: with exactly one observation the consensus price and confidence are
\* that observation's price and confidence, whatever its age, and the
\* deviation percentage is 0.
C11_SingleObservationPassesThrough ==
  Len(calcIn) = 1 =>
    /\ calcOut.op = "average" =>
         /\ ~calcOut.average.threw
         /\ calcOut.average.price = calcIn[1].price
         /\ calcOut.average.confidence = calcIn[1].confidence
    /\ calcOut.op = "deviation" => calcOut.deviation = Num(0)

\* a single observation older than the decay window has been averaged
C11_Witness ==
  /\ Len(calcIn) = 1
  /\ calcOut.op = "average"
  /\ now - calcIn[1].timestamp >= Window
  /\ calcIn[1].confidence = Num(1)
  /\ calcOut.average.price = Num(3)

\* the sum, added left to right, and the mean of a list of numbers
RECURSIVE SumOf(_, _)
SumOf(xs, i) == IF i = 0 THEN Num(0) ELSE Add(SumOf(xs, i - 1), xs[i])

MeanOf(xs) == Div(SumOf(xs, Len(xs)), Num(Len(xs)))

PricesOf(sources) == [i \in 1..Len(sources) |-> sources[i].price]
ConfidencesOf(sources) == [i \in 1..Len(sources) |-> sources[i].confidence]

\* the weight the specification gives an observation at time t:
\* confidence * max(0, 1 - age / window)
WeightOf(s, t) ==
  Mul(s.confidence, MathMax(Num(0), Sub(Num(1), Div(Num(t - s.timestamp), Num(Window)))))

\* an observation that is too old or has no confidence
Weightless(s, t) == t - s.timestamp >= Window \/ s.confidence = Num(0)

WeightsOf(sources, t) == [i \in 1..Len(sources) |-> WeightOf(sources[i], t)]

\* the mean of the prices under the normalised weights
WeightedMeanOf(sources, t) ==
  LET total == SumOf(WeightsOf(sources, t), Len(sources))
  IN  SumOf([i \in 1..Len(sources) |->
               Mul(sources[i].price, Div(WeightOf(sources[i], t), total))],
            Len(sources))

\* the observations that carry weight, in their order
Weighty(sources, t) == SelectSeq(sources, LAMBDA s : ~Weightless(s, t))

\* C23: with two or more observations whose weights sum to zero (each is at
\* least a window old or has confidence 0) the consensus price is the
\* unweighted mean of the prices and the confidence the unweighted mean of the
\* confidences; nothing is divided by the zero weight sum, so both are numbers.
C23_ZeroWeightFallsBackToMean ==
  (/\ calcOut.op = "average"
   /\ Len(calcIn) >= 2
   /\ \A i \in 1..Len(calcIn) : Weightless(calcIn[i], now)) =>
    /\ ~calcOut.average.threw
    /\ ~IsNaN(calcOut.average.price)
    /\ calcOut.average.price = MeanOf(PricesOf(calcIn))
    /\ calcOut.average.confidence = MeanOf(ConfidencesOf(calcIn))

\* two fully confident observations, both a window old or older, with the
\* prices 1 and 3, average to 2
C23_Witness ==
  /\ calcOut.op = "average"
  /\ Len(calcIn) = 2
  /\ \A i \in 1..2 : now - calcIn[i].timestamp >= Window /\ calcIn[i].confidence = Num(1)
  /\ calcIn[1].price = Num(1) /\ calcIn[2].price = Num(3)
  /\ calcOut.average.price = Num(2)

\* C24: with two or more observations whose weights have a positive sum the
\* consensus price is the mean of the prices under the weights
\* confidence * max(0, 1 - age / window) divided by their sum; no weight is
\* negative, and an observation at least a window old or of confidence 0 has
\* no influence: the price is the weighted mean of the other observations.
C24_WeightedMeanOfFreshObservations ==
  (/\ calcOut.op = "average"
   /\ Len(calcIn) >= 2
   /\ \E i \in 1..Len(calcIn) : ~Weightless(calcIn[i], now)) =>
    /\ \A i \in 1..Len(calcIn) :
         /\ Le(Num(0), WeightOf(calcIn[i], now))
         /\ Weightless(calcIn[i], now) <=> WeightOf(calcIn[i], now) = Num(0)
    /\ Lt(Num(0), SumOf(WeightsOf(calcIn, now), Len(calcIn)))
    /\ calcOut.average.price = WeightedMeanOf(calcIn, now)
    /\ calcOut.average.price = WeightedMeanOf(Weighty(calcIn, now), now)

\* an observation older than the window with the price 3 and full confidence
\* next to a current one with the price 1: the consensus is 1
C24_Witness ==
  /\ calcOut.op = "average"
  /\ Len(calcIn) = 2
  /\ now - calcIn[1].timestamp > Window
  /\ calcIn[1].confidence = Num(1) /\ calcIn[1].price = Num(3)
  /\ now - calcIn[2].timestamp = 0
  /\ calcIn[2].confidence # Num(0) /\ calcIn[2].price = Num(1)
  /\ calcOut.average.price = Num(1)

\* every confidence of the list lies in [0, 1]
UnitConfidences(sources) ==
  \A i \in 1..Len(sources) :
    Le(Num(0), sources[i].confidence) /\ Le(sources[i].confidence, Num(1))

\* C25: with two or more observations the consensus confidence is the
\* unweighted mean of the confidences, whatever the ages, and the confidence
\* of every result lies in [0, 1] when every input confidence does.
C25_ConfidenceIsPlainMean ==
  calcOut.op = "average" =>
    /\ Len(calcIn) >= 2 =>
         calcOut.average.confidence = MeanOf(ConfidencesOf(calcIn))
    /\ UnitConfidences(calcIn) =>
         /\ Le(Num(0), calcOut.average.confidence)
         /\ Le(calcOut.average.confidence, Num(1))

\* two observations of different ages, one older than the window, with
\* different non-zero confidences
C25_Witness ==
  /\ calcOut.op = "average"
  /\ Len(calcIn) = 2
  /\ calcIn[1].confidence = Num(1)
  /\ calcIn[2].confidence = Fl(<<4, 5>>)
  /\ now - calcIn[1].timestamp = 0
  /\ now - calcIn[2].timestamp > Window
  /\ Lt(calcOut.average.confidence, Num(1))
  /\ Lt(Fl(<<4, 5>>), calcOut.average.confidence)

\* the population standard deviation of a list of numbers
PopulationSd(xs) ==
  LET mean == MeanOf(xs)
  IN  MathSqrt(MeanOf([i \in 1..Len(xs) |->
                         Mul(Sub(xs[i], mean), Sub(xs[i], mean))]))

\* x is y to within 0.02
About(x, y) == Le(MathAbs(Sub(x, y)), Fl(<<1, 50>>))

\* the prices of the list are 100 and 102
Prices100And102(sources) ==
  /\ Len(sources) = 2
  /\ {sources[1].price, sources[2].price} = {Lit(100), Lit(102)}

\* the deviation is the population standard deviation of the prices over
\* their mean, times 100; 0 below two observations and for identical prices
DeviationFormula ==
  /\ Len(calcIn) < 2 => calcOut.deviation = Num(0)
  /\ Len(calcIn) >= 2 =>
       calcOut.deviation =
         Mul(Div(PopulationSd(PricesOf(calcIn)), MeanOf(PricesOf(calcIn))), Lit(100))
  /\ (\A i \in 1..Len(calcIn) : calcIn[i].price = calcIn[1].price) =>
       calcOut.deviation = Num(0)

\* C26 as stated: the deviation percentage is the population standard
\* deviation of the prices divided by their mean, times 100, whatever the
\* confidences and timestamps; it is 0 for fewer than two observations and for
\* identical prices, and about 1.98 for the prices 100 and 102.
C26_DeviationAbout198 ==
  calcOut.op = "deviation" =>
    /\ DeviationFormula
    /\ Prices100And102(calcIn) => About(calcOut.deviation, Fl(<<198, 100>>))

\* C26 amended: as above, but the prices 100 and 102 (standard deviation 1,
\* mean 101) give a deviation of about 0.99.
C26_DeviationAbout099 ==
  calcOut.op = "deviation" =>
    /\ DeviationFormula
    /\ Prices100And102(calcIn) => About(calcOut.deviation, Fl(<<99, 100>>))

\* the deviation of the prices 100 and 102, observed with different
\* confidences and at different times
C26_Witness ==
  /\ calcOut.op = "deviation"
  /\ Prices100And102(calcIn)
  /\ calcIn[1].confidence # calcIn[2].confidence
  /\ calcIn[1].timestamp # calcIn[2].timestamp
  /\ About(calcOut.deviation, Fl(<<99, 100>>))

(***************************************************************************)
(* Properties of detectArbitrage (SpecArb)                                 *)
(***************************************************************************)
\* the opportunity is the one of the pair (i, j) of the input
OfPair(o, i, j) ==
  {o.buy_source, o.sell_source} = {calcIn[i].source, calcIn[j].source}

\* the number of emitted opportunities of the pair (i, j)
Emitted(i, j) ==
  Cardinality({k \in 1..Len(calcOut.opportunities) :
                 OfPair(calcOut.opportunities[k], i, j)})

C14_SortedBySpread ==
  calcOut.op = "arbitrage" =>
    \A k \in 1..(Len(calcOut.opportunities) - 1) :
      Le(calcOut.opportunities[k + 1].spread_percentage,
         calcOut.opportunities[k].spread_percentage)

\* three opportunities that the sort had to reorder
C14_Witness ==
  /\ calcOut.op = "arbitrage"
  /\ Len(calcOut.opportunities) = 3
  /\ calcOut.opportunities # Opportunities(calcIn, 1, 2)

\* the example of the specification: prices 100 and 101.5 with confidences
\* 0.90 and 0.95, each rounded to the nearest representable number (which
\* keeps the two prices apart except when MantissaBits is 5)
ArbExample ==
  <<[source |-> "chainlink", price |-> Lit(100), confidence |-> Fl(<<9, 10>>),
     timestamp |-> 0],
    [source |-> "pyth", price |-> Fl(<<203, 2>>), confidence |-> Fl(<<19, 20>>),
     timestamp |-> 0]>>

\* C15: in every emitted opportunity the buy source is the source with the
\* strictly lower price and the sell source the one with the higher price,
\* profit_potential is the absolute price difference and confidence is the
\* smaller of the two confidences; the prices 100 (0.90) and 101.5 (0.95) give
\* exactly one opportunity, buying from the 100-priced source, with
\* confidence 0.90.
C15_BuyLowSellHigh ==
  calcOut.op = "arbitrage" =>
    /\ \A k \in 1..Len(calcOut.opportunities) :
         LET o == calcOut.opportunities[k]
         IN  \E i, j \in 1..Len(calcIn) :
               /\ o.buy_source = calcIn[i].source
               /\ o.sell_source = calcIn[j].source
               /\ o.buy_source # o.sell_source
               /\ Lt(calcIn[i].price, calcIn[j].price)
               /\ o.profit_potential = Sub(calcIn[j].price, calcIn[i].price)
               /\ o.confidence \in {calcIn[i].confidence, calcIn[j].confidence}
               /\ Le(o.confidence, calcIn[i].confidence)
               /\ Le(o.confidence, calcIn[j].confidence)
    /\ (calcIn = ArbExample /\ ArbExample[1].price # ArbExample[2].price) =>
         /\ Len(calcOut.opportunities) = 1
         /\ calcOut.opportunities[1].buy_source = "chainlink"
         /\ calcOut.opportunities[1].sell_source = "pyth"
         /\ calcOut.opportunities[1].confidence = Fl(<<9, 10>>)

C15_Witness ==
  /\ calcOut.op = "arbitrage"
  /\ calcIn = ArbExample
  /\ Len(calcOut.opportunities) = 1

(***************************************************************************)
(* Properties of getUnifiedPrice and of the cache (SpecEngine)             *)
(***************************************************************************)
\* no adapter call of the invocation r produced an observation
NoObservation(r) == \A i \in 1..2 : req[r].calls[i].st \in {"null", "rejected"}

\* some adapter call of the invocation r produced an observation
SomeObservation(r) == \E i \in 1..2 : req[r].calls[i].st = "value"

\* C1: when every adapter call of a request fails, rejects or yields no
\* observation, the request fails with the no-data error and nothing is
\* written to the cache: the step that ends the fetch leaves the store as it
\* was.
C1_NoDataLeavesCache ==
  [][\A r \in Reqs :
       (req[r].pc = "fetching" /\ NoObservation(r) /\ req'[r].pc # "fetching")
         => /\ req'[r].pc = "failed"
            /\ req'[r].err = "nodata"
            /\ ~req'[r].wrote
            /\ store' = store
            /\ lastSet' = lastSet]_vars

C1_Witness ==
  \E r \in Reqs : /\ req[r].pc = "failed"
                  /\ req[r].err = "nodata"
                  /\ req[r].calls[1].st = "rejected"
                  /\ req[r].calls[2].st = "null"

\* C2: a cache-miss request in which at least one adapter returned an
\* observation never fails, whatever the other adapter did.
C2_PartialFailureNeverFails ==
  \A r \in Reqs : SomeObservation(r) => req[r].pc # "failed"

\* C3: a cache failure never makes the request fail: a failed read is treated
\* as a miss and a failed write still returns the result.
C3_CacheFailsOpen ==
  \A r \in Reqs : req[r].pc = "failed" => req[r].err # "cache"

\* C8: after set(key, v, ttl) with a positive ttl, a get of the key answered
\* by the store before the TTL has elapsed (no set in between) returns v, and
\* one answered after it has elapsed returns a miss.
C8_CacheRoundTrip ==
  [][\A r \in Reqs :
       LET k == cacheKey(req[r].chain, req[r].symbol)
       IN  (req[r].pc = "probing" /\ req'[r].pc # "probing" /\ redisOk
            /\ lastSet[k].done /\ lastSet[k].ttl > 0)
             => IF now < lastSet[k].at + lastSet[k].ttl
                THEN req'[r].pc = "done" /\ req'[r].result = JSONparse(lastSet[k].val)
                ELSE req'[r].pc = "fetching"]_vars

\* a hit on an entry that is still alive
C8_Witness ==
  \E r \in Reqs :
    LET k == cacheKey(req[r].chain, req[r].symbol)
    IN  /\ req[r].pc = "done"
        /\ ~req[r].wrote
        /\ lastSet[k].done
        /\ lastSet[k].ttl > 0
        /\ req[r].result = JSONparse(lastSet[k].val)

\* the count of a result agrees with its list of distinct source names
WellCounted(d) ==
  /\ d.source_count = Len(d.sources)
  /\ d.source_count >= 1
  /\ \A i, j \in 1..Len(d.sources) : i # j => d.sources[i] # d.sources[j]

\* C12: every result returned by getUnifiedPrice, fresh or from the cache,
\* and every value stored in the cache has source_count equal to the number
\* of its sources, at least 1, with pairwise distinct source names.
C12_SourceCountMatchesSources ==
  /\ \A r \in Reqs : req[r].pc = "done" => WellCounted(req[r].result)
  /\ \A k \in CacheKeys : store[k].present => WellCounted(JSONparse(store[k].val))

\* a result with two sources served from the cache
C12_Witness ==
  \E r \in Reqs : /\ req[r].pc = "done"
                  /\ ~req[r].wrote
                  /\ req[r].result.source_count = 2

\* the observations the invocation r computes its result from, in a step that
\* computes one
UsedSources(r) == BuildSources(req[r].calls)

\* C27: every observation that enters the observation set a consensus result
\* is computed from has a price above 0 and a confidence in [0, 1]: an adapter
\* answer with a non-positive price is never used.
C27_ObservationsArePositive ==
  [][\A r \in Reqs :
       (req[r].pc = "fetching" /\ req'[r].pc = "storing") =>
         \A i \in 1..Len(UsedSources(r)) :
           /\ Lt(Num(0), UsedSources(r)[i].price)
           /\ Le(Num(0), UsedSources(r)[i].confidence)
           /\ Le(UsedSources(r)[i].confidence, Num(1))]_vars

\* the cache key of the invocation r
KeyOf(r) == cacheKey(req[r].chain, req[r].symbol)

\* the invocations r and q work on the same key
SameKey(r, q) == r # q /\ req[r].pc # "idle" /\ req[q].pc # "idle" /\ KeyOf(r) = KeyOf(q)

\* C21: concurrent misses on one key are not deduplicated.  Whatever another
\* invocation for the same key is doing, an invocation whose probe misses
\* invokes both adapters itself, and an invocation that has computed a result
\* writes that result to the cache.
C21_MissesAreNotDeduplicated ==
  [][\A r \in Reqs :
       /\ (req[r].pc = "probing" /\ req'[r].pc # "probing"
            /\ ~RedisGet(KeyOf(r), now).present) =>
             /\ req'[r].pc = "fetching"
             /\ \A i \in 1..2 : req'[r].calls[i] = Pending
       /\ (req[r].pc = "storing" /\ req'[r].pc # "storing") =>
             /\ req'[r].wrote
             /\ store'[KeyOf(r)] = RedisSet(JSONstringify(req[r].result), ttlPrice, now)
    ]_vars

\* two invocations for one key that both missed: both fetched, the first has
\* written its result and the second has its own result ready to write
C21_Witness ==
  /\ SameKey("r1", "r2")
  /\ req["r1"].pc = "done" /\ req["r1"].wrote
  /\ req["r2"].pc = "storing"
  /\ RedisGet(KeyOf("r1"), now).present
  /\ \A r \in Reqs : \E i \in 1..2 : req[r].calls[i].st = "value"

\* C22: the last writer to a key wins.  A write replaces the entry by the
\* writer's own result whatever the entry held, and once two concurrent
\* recomputations for one key have both written, the cached value is the
\* result of one of the two, whole.
C22_LastWriterWins ==
  /\ [](\A r, q \in Reqs :
          (SameKey(r, q) /\ req[r].pc = "done" /\ req[r].wrote
                         /\ req[q].pc = "done" /\ req[q].wrote) =>
            /\ store[KeyOf(r)].present
            /\ store[KeyOf(r)].val \in
                 {JSONstringify(req[r].result), JSONstringify(req[q].result)})
  /\ [][\A r \in Reqs :
          (req[r].pc = "storing" /\ req'[r].pc = "done") =>
            store'[KeyOf(r)].val = JSONstringify(req[r].result)]_vars

\* two recomputations for one key have both written; the one that computed
\* its result earlier wrote last, and the cache holds its result
C22_Witness ==
  /\ SameKey("r1", "r2")
  /\ \A r \in Reqs : req[r].pc = "done" /\ req[r].wrote
  /\ req["r1"].result.timestamp < req["r2"].result.timestamp
  /\ store[KeyOf("r1")].val = JSONstringify(req["r1"].result)
  /\ store[KeyOf("r1")].val # JSONstringify(req["r2"].result)

\* C28: the key derived from (chain, symbol) is injective, also for strings
\* that contain ':': two distinct pairs never share a cache entry, so an
\* invocation getUnifiedPrice(symbol, chain) that returns a result returns one
\* whose symbol and chain are the requested ones.
C28_ResultIsForRequestedPair ==
  \A r \in Reqs :
    req[r].pc = "done" =>
      /\ req[r].result.symbol = req[r].symbol
      /\ req[r].result.chain = req[r].chain

\* the connection has connected and its close event has not happened
Live(c) == readyState[c] \in {"OPEN", "CLOSING"}

\* C29: the connections of the subscription registry are exactly the
\* connections that have connected and not yet closed.  After a connection's
\* close event no handler re-creates its entry or adds a key to it, and
\* nothing is sent to it: not by a subscribe or unsubscribe message processed
\* after the close, and not by a subscribe whose initial fetch completes after
\* the close.
C29_RegistryIsLiveConnections ==
  \A c \in Conns :
    /\ subscriptions[c].reg <=> Live(c)
    /\ ~Live(c) => subscriptions[c].keys = {}
    /\ readyState[c] = "CLOSED" => outbox[c] = <<>>

\* the initial fetch of a subscribe has completed with a result after the
\* close event of its connection
C29_Witness ==
  \E c \in Conns, r \in Reqs :
    /\ readyState[c] = "CLOSED"
    /\ ~subscriptions[c].reg
    /\ req[r].origin = c
    /\ req[r].pc = "done"
    /\ outbox[c] = <<>>

\* the number of requests admitted since the counter entry in force at time t
\* was created (none when there is no entry)
RECURSIVE CountSince(_, _)
CountSince(times, t) ==
  IF times = <<>> THEN 0
  ELSE (IF Head(times) >= t THEN 1 ELSE 0) + CountSince(Tail(times), t)

AdmittedInWindow ==
  IF Counter(now).present THEN CountSince(rateLimit.admitted, Counter(now).since)
  ELSE 0

\* C30: under every interleaving of the requests of one client the
\* middleware admits at most Limit requests within one window, and the stored
\* counter is the number of requests admitted in the current window.
C30_AtMostLimitAdmitted ==
  /\ AdmittedInWindow <= Limit
  /\ Counter(now).val = AdmittedInWindow

\* C18: every entry the engine writes to the cache carries a finite expiry
\* equal to the configured price TTL, whatever the configured TTL, so a hit
\* never returns an entry older than the TTL.
C18_EntriesExpireAfterTtl ==
  \A k \in CacheKeys :
    store[k].present =>
      /\ store[k].exp # NoExpiry
      /\ store[k].exp = lastSet[k].at + ttlPrice

\* the names of the adapters whose call was fulfilled with an observation
ObservedNames(calls) ==
  (IF calls[1].st = "value" THEN <<Adapters[1]>> ELSE <<>>)
  \o (IF calls[2].st = "value" THEN <<Adapters[2]>> ELSE <<>>)

\* C19: on a cache miss every adapter is invoked exactly once, the outcome of
\* one call never aborts, discards or changes a sibling call, the join waits
\* for every call, and the sources of the result are exactly the adapters
\* whose call was fulfilled with an observation.
C19_EveryAdapterOnceAndKept ==
  [][\A r \in Reqs :
       /\ (req[r].pc = "probing" /\ req'[r].pc = "fetching") =>
            \A i \in 1..Len(Adapters) :
              req[r].calls[i].st = "none" /\ req'[r].calls[i].st = "pending"
       /\ (req[r].pc = "fetching" /\ req'[r].pc = "fetching") =>
            /\ \A i \in 1..Len(Adapters) :
                 req'[r].calls[i] # req[r].calls[i] =>
                   /\ req[r].calls[i].st = "pending"
                   /\ req'[r].calls[i].st # "none"
            /\ \E i \in 1..Len(Adapters) : req'[r].calls[i] = req[r].calls[i]
       /\ (req[r].pc = "fetching" /\ req'[r].pc # "fetching") =>
            /\ \A i \in 1..Len(Adapters) :
                 Settled(req[r].calls[i]) /\ req'[r].calls[i].st = req[r].calls[i].st
            /\ req'[r].pc = "storing" =>
                 req'[r].result.sources = ObservedNames(req[r].calls)]_vars

\* Chainlink rejected, Pyth answered: the result has the one source
C19_Witness ==
  \E r \in Reqs : /\ req[r].pc = "storing"
                  /\ req[r].calls[1].st = "rejected"
                  /\ req[r].calls[2].st = "value"
                  /\ req[r].result.sources = <<"pyth">>

\* C20: on a cache hit getUnifiedPrice returns the cached result without
\* invoking an adapter and without writing the cache: the value and the
\* expiry of the entry are unchanged by the hit.
C20_HitLeavesCacheAlone ==
  [][\A r \in Reqs :
       LET k == cacheKey(req[r].chain, req[r].symbol)
       IN  (req[r].pc = "probing" /\ req'[r].pc # "probing" /\ redisOk
            /\ RedisGet(k, now).present)
             => /\ req'[r].pc = "done"
                /\ req'[r].result = JSONparse(store[k].val)
                /\ \A i \in 1..Len(Adapters) : req'[r].calls[i].st = "none"
                /\ ~req'[r].wrote
                /\ store' = store
                /\ lastSet' = lastSet]_vars

\* a hit on an entry that expires: the entry is still what was written
C20_Witness ==
  \E r \in Reqs :
    LET k == cacheKey(req[r].chain, req[r].symbol)
    IN  /\ req[r].pc = "done"
        /\ ~req[r].wrote
        /\ \A i \in 1..Len(Adapters) : req[r].calls[i].st = "none"
        /\ store[k] = RedisSet(lastSet[k].val, lastSet[k].ttl, lastSet[k].at)
        /\ store[k].exp # NoExpiry

(***************************************************************************)
(* Properties of the registry and the fan-out (SpecFanout, SpecWs)         *)
(***************************************************************************)
\* the key of the broadcast the last step performed
BroadcastKey == subscriptionKey(lastOp.chain, lastOp.symbol)

Subscribed(c, key) == subscriptions[c].reg /\ key \in subscriptions[c].keys

IsUpdate(m, key) == m.type = "price_update" /\ m.key = key

\* C5: in every registry state, a broadcast for (chain, symbol) sends exactly
\* one price_update, carrying the broadcast pair, to each open connection
\* subscribed to the key and nothing to any other connection.
C5_BroadcastExactlySubscribers ==
  lastOp.op = "broadcast" =>
    \A c \in Conns :
      IF Subscribed(c, BroadcastKey) /\ readyState[c] = "OPEN"
      THEN /\ Len(outbox[c]) = 1
           /\ IsUpdate(outbox[c][1], BroadcastKey)
           /\ outbox[c][1].payload.chain = lastOp.chain
           /\ outbox[c][1].payload.symbol = lastOp.symbol
      ELSE outbox[c] = <<>>

\* one connection receives the update, another one, open and subscribed only
\* to a different key, receives nothing
C5_Witness ==
  /\ lastOp.op = "broadcast"
  /\ \E c, d \in Conns :
       /\ Len(outbox[c]) = 1
       /\ readyState[d] = "OPEN"
       /\ subscriptions[d].keys # {}
       /\ BroadcastKey \notin subscriptions[d].keys
       /\ outbox[d] = <<>>

\* C6: after connection A's unsubscribe for a key has been processed, no
\* price_update for that key is sent to A until A subscribes to it again.
C6_NoUpdateAfterUnsubscribe ==
  \A c \in Conns : \A j \in 1..Len(outbox[c]) :
    outbox[c][j].type = "price_update" => outbox[c][j].key \notin unsub[c]

\* a connection that cannot take the broadcast: registered for the key but not
\* open, or open with a dead peer
Dead(c, key) ==
  Subscribed(c, key) /\ (readyState[c] # "OPEN" \/ c \in peerDead)

Healthy(c, key) ==
  Subscribed(c, key) /\ readyState[c] = "OPEN" /\ c \notin peerDead

\* C7: during a broadcast a connection that is not open or whose send fails
\* does not keep the message from the others: every other open subscriber of
\* the key is sent the message, and receives it.
C7_DeadConnectionDoesNotBlock ==
  (lastOp.op = "broadcast" /\ \E d \in Conns : Dead(d, BroadcastKey)) =>
    \A c \in Conns :
      Healthy(c, BroadcastKey) =>
        /\ Len(outbox[c]) = 1
        /\ IsUpdate(outbox[c][1], BroadcastKey)
        /\ outbox[c][1].received

C7_Witness ==
  /\ lastOp.op = "broadcast"
  /\ Dead("A", BroadcastKey)
  /\ readyState["A"] = "CLOSING"
  /\ Healthy("B", BroadcastKey)
  /\ Len(outbox["B"]) = 1

\* C16: when a connection closes all its subscriptions are destroyed: from
\* the close event on the connection has no registry entry, no broadcast
\* delivers a message to it, and the close event takes exactly its
\* subscriptions out of the count of active subscriptions.
C16_CloseDestroysSubscriptions ==
  [][\A c \in Conns :
       /\ readyState'[c] = "CLOSED" =>
            /\ ~subscriptions'[c].reg
            /\ lastOp'.op = "broadcast" => outbox'[c] = <<>>
       /\ (readyState[c] # "CLOSED" /\ readyState'[c] = "CLOSED") =>
            getActiveSubscriptions(subscriptions') =
              getActiveSubscriptions(subscriptions)
                - (IF subscriptions[c].reg
                   THEN Cardinality(subscriptions[c].keys) ELSE 0)]_vars

\* a broadcast after A has closed reaches B, and the count is B's alone
C16_Witness ==
  /\ lastOp.op = "broadcast"
  /\ readyState["A"] = "CLOSED"
  /\ outbox["A"] = <<>>
  /\ Healthy("B", BroadcastKey)
  /\ Len(outbox["B"]) = 1
  /\ getActiveSubscriptions(subscriptions) = Cardinality(subscriptions["B"].keys)

(***************************************************************************)
(* Progress.  The event loop runs every continuation that is ready, Redis  *)
(* answers every command and an adapter call that is still making progress *)
(* settles; nothing forces a call that hangs, a caller of                  *)
(* broadcastPriceUpdate, or the environment.                               *)
(***************************************************************************)
\* the join of line 39 has settled: Compute(r) is enabled exactly here, and
\* every Compute step changes req[r].pc
Joined(r) ==
  /\ req[r].pc = "fetching"
  /\ \A i \in 1..Len(Adapters) : Settled(req[r].calls[i])

\* WF_vars(Compute(r)): ENABLED <<Compute(r)>>_vars is Joined(r), and a
\* Compute(r) step leaves Joined(r), so the condition is that the request does
\* not stay joined for ever
ComputeRuns(r) == []<>(~Joined(r))

FairSpecEngine ==
  /\ SpecEngine
  /\ WF_vars(ProbeReturn("r1"))
  /\ WF_vars(AdapterSettle("r1", 1, Outcomes(1, now)))
  /\ WF_vars(AdapterSettle("r1", 2, Outcomes(2, now)))
  /\ ComputeRuns("r1")
  /\ WF_vars(StoreReturn("r1"))
  /\ WF_vars(HttpRespond("r1"))

\* connections that open and subscribe, the fetches of their subscribe
\* handlers, and whoever calls broadcastPriceUpdate
NextPush ==
  \/ EngineNext({"r1"}, Answers)
  \/ \E c \in Conns : Connection(c)
  \/ \E c \in Conns, pair \in Pairs, r \in {"r1"} : HandleSubscribe(c, pair, r)
  \/ \E pair \in Pairs : Broadcast(pair)
  \/ \E r \in {"r1"} : SubscribeResume(r)

FairSpecPush ==
  /\ InitWs /\ [][NextPush]_vars
  /\ WF_vars(ProbeReturn("r1"))
  /\ WF_vars(AdapterSettle("r1", 1, Answers(1, now)))
  /\ WF_vars(AdapterSettle("r1", 2, Answers(2, now)))
  /\ ComputeRuns("r1")
  /\ WF_vars(StoreReturn("r1"))
  /\ WF_vars(SubscribeResume("r1"))

InFlight(r) == req[r].pc \in {"probing", "fetching", "storing"}

Completed(r) == req[r].pc \in {"done", "failed"}

\* C9: every adapter call is bounded by a timeout, so an invocation of
\* getUnifiedPrice always eventually completes, with a result or an error,
\* even when an adapter call never returns.
C9_RequestCompletes ==
  \A r \in Reqs : InFlight(r) ~> Completed(r)

\* the result a request for the pair computes in SpecWs, where the only
\* observation is Chainlink's at time 0
ResultFor(pair) ==
  CHOOSE d \in {UnifiedData(pair[2], pair[1],
                            BuildSources(<<[st |-> "value", value |-> o], NoCall>>), 0) :
                  o \in AdapterObs(1, 0)} : TRUE

HasUpdate(c, d) ==
  \E j \in 1..Len(outbox[c]) :
    outbox[c][j].type = "price_update" /\ outbox[c][j].payload = d

\* C10: whenever a request computes a new result for (chain, symbol) and
\* stores it, every open connection subscribed to that key at that moment
\* eventually receives a price_update carrying that result (or has meanwhile
\* closed or unsubscribed).
C10_StoredResultIsPushed ==
  \A c \in Conns : \A pair \in Pairs :
    (/\ lastOp = [op |-> "store", chain |-> pair[1], symbol |-> pair[2]]
     /\ store[cacheKey(pair[1], pair[2])].val = JSONstringify(ResultFor(pair))
     /\ Subscribed(c, subscriptionKey(pair[1], pair[2]))
     /\ readyState[c] = "OPEN")
      ~> (\/ HasUpdate(c, ResultFor(pair))
          \/ readyState[c] # "OPEN"
          \/ ~Subscribed(c, subscriptionKey(pair[1], pair[2])))

\* connections that open, subscribe, lose their peer and close, and the
\* heartbeat timer, which keeps firing
NextHeartbeat ==
  \/ Heartbeat
  \/ \E c \in Conns : Connection(c)
  \/ \E c \in Conns : BeginClose(c)
  \/ \E c \in Conns : CloseEvent(c)
  \/ \E c \in Conns : PeerDies(c)
  \/ \E c \in Conns, pair \in Pairs, r \in {"r1"} : HandleSubscribe(c, pair, r)
  \/ \E r \in {"r1"} : ProbeReturn(r)
  \/ \E r \in {"r1"}, i \in 1..2 : AdapterSettle(r, i, {[st |-> "null", value |-> NoObs]})
  \/ \E r \in {"r1"} : Compute(r)
  \/ \E r \in {"r1"} : SubscribeResume(r)

FairSpecHeartbeat ==
  /\ InitWs /\ [][NextHeartbeat]_vars
  /\ WF_vars(Heartbeat)

\* C17: the heartbeat is pushed to every live connection, and a dead peer is
\* pruned: a registered connection whose peer is gone is eventually removed
\* from the registry.
C17_DeadPeerIsPruned ==
  /\ [](lastOp.op = "heartbeat" =>
         \A c \in Conns :
           readyState[c] = "OPEN" =>
             Len(outbox[c]) = 1 /\ outbox[c][1].type = "heartbeat")
  /\ \A c \in Conns :
       (c \in peerDead /\ subscriptions[c].reg) ~> ~subscriptions[c].reg

====
